---------------------------- MODULE Spec2Model ----------------------------
(***************************************************************************)
(* Rock-Paper-Scissors-Plus referee (src/Game/rps_plus_referee.py).        *)
(*                                                                         *)
(* The module-level GameState, the five tools that read or mutate it, the  *)
(* mock Agent.run that sequences them for one round, and main()'s loop.    *)
(*                                                                         *)
(* A Python str that the program inspects character by character (the raw  *)
(* console input) is a sequence of one-character strings; the move names   *)
(* and messages, which the program only compares and passes on, are TLA+   *)
(* strings.  A Python dict is a record with the dict's keys.               *)
(***************************************************************************)
EXTENDS Integers, Sequences, FiniteSets

(***************************************************************************)
(* Bounds of the model.                                                    *)
(***************************************************************************)
\* longest run of whitespace put before and after a word of raw input
MaxPad == 1
\* most calls of update_game_state made on one GameState under ToolSpec
MaxCalls == 4

(***************************************************************************)
(* Text: str.strip() and str.lower() on sequences of characters.           *)
(***************************************************************************)
UpperLetters ==
    <<"A","B","C","D","E","F","G","H","I","J","K","L","M",
      "N","O","P","Q","R","S","T","U","V","W","X","Y","Z">>

LowerLetters ==
    <<"a","b","c","d","e","f","g","h","i","j","k","l","m",
      "n","o","p","q","r","s","t","u","v","w","x","y","z">>

\* the characters str.strip() removes that the inputs of this model contain
Whitespace == {" ", "\t"}

\* str.lower() on one character
lower_char(c) ==
    IF \E i \in 1..Len(UpperLetters) : UpperLetters[i] = c
    THEN LowerLetters[CHOOSE i \in 1..Len(UpperLetters) : UpperLetters[i] = c]
    ELSE c

\* str.lower()
lower(s) == [i \in 1..Len(s) |-> lower_char(s[i])]

RECURSIVE lstrip(_)
lstrip(s) ==
    IF s # <<>> /\ Head(s) \in Whitespace THEN lstrip(Tail(s)) ELSE s

RECURSIVE rstrip(_)
rstrip(s) ==
    IF s # <<>> /\ s[Len(s)] \in Whitespace
    THEN rstrip(SubSeq(s, 1, Len(s) - 1))
    ELSE s

\* str.strip(): leading and trailing whitespace removed, inner whitespace kept
strip(s) == rstrip(lstrip(s))

\* the characters of the four move names
Chars ==
    [rock     |-> <<"r","o","c","k">>,
     paper    |-> <<"p","a","p","e","r">>,
     scissors |-> <<"s","c","i","s","s","o","r","s">>,
     bomb     |-> <<"b","o","m","b">>]

\* valid_moves of validate_and_normalize_input
valid_moves == <<"rock", "paper", "scissors", "bomb">>

Moves == {valid_moves[i] : i \in 1..Len(valid_moves)}

\* what validate_and_normalize_input may hand to resolution
UserMoves == Moves \cup {"invalid"}

(***************************************************************************)
(* GameState and the tools, as functions of the global state they read.    *)
(***************************************************************************)
\* GameState(): the dataclass defaults
GameState ==
    [round_number   |-> 0,
     user_score     |-> 0,
     bot_score      |-> 0,
     user_bomb_used |-> FALSE,
     bot_bomb_used  |-> FALSE,
     game_over      |-> FALSE]

\* the round in which the game ends
LastRound == 3

\* mutant of validate_and_normalize_input: the bomb check reads the bot's flag
validate_reads_bot_flag(user_input, gs) ==
    LET normalized == lower(strip(user_input)) IN
    IF ~ \E i \in 1..Len(valid_moves) : Chars[valid_moves[i]] = normalized
    THEN [normalized_move |-> "invalid",
          status |-> "Invalid move. Must be one of: rock, paper, scissors, bomb."]
    ELSE LET move == valid_moves[CHOOSE i \in 1..Len(valid_moves) :
                                     Chars[valid_moves[i]] = normalized] IN
         IF move = "bomb" /\ gs.bot_bomb_used
         THEN [normalized_move |-> "invalid",
               status |-> "Bomb already used. Cannot use bomb again."]
         ELSE [normalized_move |-> move, status |-> "valid"]

\* validate_and_normalize_input(user_input), reading _game_state = gs
validate_and_normalize_input(user_input, gs) ==
    LET normalized == lower(strip(user_input)) IN
    IF ~ \E i \in 1..Len(valid_moves) : Chars[valid_moves[i]] = normalized
    THEN [normalized_move |-> "invalid",
          status |-> "Invalid move. Must be one of: rock, paper, scissors, bomb."]
    ELSE LET move == valid_moves[CHOOSE i \in 1..Len(valid_moves) :
                                     Chars[valid_moves[i]] = normalized] IN
         IF move = "bomb" /\ gs.user_bomb_used
         THEN [normalized_move |-> "invalid",
               status |-> "Bomb already used. Cannot use bomb again."]
         ELSE [normalized_move |-> move, status |-> "valid"]

\* mutant of win_conditions: the last pair written the wrong way round
win_conditions_reversed_pair ==
    {<<"rock", "scissors">>, <<"scissors", "paper">>, <<"rock", "paper">>}

\* win_conditions of resolve_round_outcome: the pairs the user wins
win_conditions ==
    {<<"rock", "scissors">>, <<"scissors", "paper">>, <<"paper", "rock">>}

\* mutant of InvalidOutcome: the forfeit credits the bot, its named winner
InvalidOutcomeCreditsBot ==
    [result |-> "invalid", winner |-> "bot",
     message |-> "Invalid input. Round forfeited.",
     user_score_delta |-> 0, bot_score_delta |-> 1]

\* the dicts resolve_round_outcome returns, one for each return statement
InvalidOutcome ==
    [result |-> "invalid", winner |-> "bot",
     message |-> "Invalid input. Round forfeited.",
     user_score_delta |-> 0, bot_score_delta |-> 0]

DrawOutcome ==
    [result |-> "draw", winner |-> "none",
     message |-> "Draw.",
     user_score_delta |-> 0, bot_score_delta |-> 0]

UserBombOutcome ==
    [result |-> "win", winner |-> "user",
     message |-> "User wins this round (bomb beats all).",
     user_score_delta |-> 1, bot_score_delta |-> 0]

BotBombOutcome ==
    [result |-> "win", winner |-> "bot",
     message |-> "Bot wins this round (bomb beats all).",
     user_score_delta |-> 0, bot_score_delta |-> 1]

UserWinOutcome ==
    [result |-> "win", winner |-> "user",
     message |-> "User wins this round.",
     user_score_delta |-> 1, bot_score_delta |-> 0]

BotWinOutcome ==
    [result |-> "win", winner |-> "bot",
     message |-> "Bot wins this round.",
     user_score_delta |-> 0, bot_score_delta |-> 1]

\* mutant of resolve_round_outcome: the user's bomb rule is missing
resolve_without_user_bomb(user_move, bot_move) ==
    IF user_move = "invalid" THEN InvalidOutcome
    ELSE IF user_move = bot_move THEN DrawOutcome
    ELSE IF bot_move = "bomb" THEN BotBombOutcome
    ELSE IF <<user_move, bot_move>> \in win_conditions THEN UserWinOutcome
    ELSE BotWinOutcome

\* mutant of resolve_round_outcome: the bomb rules come before the draw rule
resolve_bomb_before_draw(user_move, bot_move) ==
    IF user_move = "invalid" THEN InvalidOutcome
    ELSE IF user_move = "bomb" THEN UserBombOutcome
    ELSE IF bot_move = "bomb" THEN BotBombOutcome
    ELSE IF user_move = bot_move THEN DrawOutcome
    ELSE IF <<user_move, bot_move>> \in win_conditions THEN UserWinOutcome
    ELSE BotWinOutcome

\* resolve_round_outcome(user_move, bot_move): the first rule that applies
resolve_round_outcome(user_move, bot_move) ==
    IF user_move = "invalid" THEN InvalidOutcome
    ELSE IF user_move = bot_move THEN DrawOutcome
    ELSE IF user_move = "bomb" THEN UserBombOutcome
    ELSE IF bot_move = "bomb" THEN BotBombOutcome
    ELSE IF <<user_move, bot_move>> \in win_conditions THEN UserWinOutcome
    ELSE BotWinOutcome

\* mutant of update_game_state: the user's delta is added to both scores
update_copies_user_delta(gs, user_move, bot_move, outcome) ==
    LET round == gs.round_number + 1 IN
    [round_number   |-> round,
     user_score     |-> gs.user_score + outcome.user_score_delta,
     bot_score      |-> gs.bot_score + outcome.user_score_delta
                                     + outcome.bot_score_delta,
     user_bomb_used |-> IF user_move = "bomb" THEN TRUE ELSE gs.user_bomb_used,
     bot_bomb_used  |-> IF bot_move = "bomb" THEN TRUE ELSE gs.bot_bomb_used,
     game_over      |-> IF round >= LastRound THEN TRUE ELSE gs.game_over]

\* mutant of update_game_state: a forfeited round is not counted
update_skips_forfeited_round(gs, user_move, bot_move, outcome) ==
    LET round == IF outcome.result = "invalid"
                 THEN gs.round_number
                 ELSE gs.round_number + 1 IN
    [round_number   |-> round,
     user_score     |-> gs.user_score + outcome.user_score_delta,
     bot_score      |-> gs.bot_score + outcome.bot_score_delta,
     user_bomb_used |-> IF user_move = "bomb" THEN TRUE ELSE gs.user_bomb_used,
     bot_bomb_used  |-> IF bot_move = "bomb" THEN TRUE ELSE gs.bot_bomb_used,
     game_over      |-> IF round >= LastRound THEN TRUE ELSE gs.game_over]

\* mutant of update_game_state: a bomb is marked used only when the round is
\* won
update_marks_bomb_on_win(gs, user_move, bot_move, outcome) ==
    LET round == gs.round_number + 1 IN
    [round_number   |-> round,
     user_score     |-> gs.user_score + outcome.user_score_delta,
     bot_score      |-> gs.bot_score + outcome.bot_score_delta,
     user_bomb_used |-> IF user_move = "bomb" /\ outcome.result = "win"
                        THEN TRUE ELSE gs.user_bomb_used,
     bot_bomb_used  |-> IF bot_move = "bomb" /\ outcome.result = "win"
                        THEN TRUE ELSE gs.bot_bomb_used,
     game_over      |-> IF round >= LastRound THEN TRUE ELSE gs.game_over]

\* mutant of update_game_state: the game ends after, not in, the last round
update_ends_one_round_late(gs, user_move, bot_move, outcome) ==
    LET round == gs.round_number + 1 IN
    [round_number   |-> round,
     user_score     |-> gs.user_score + outcome.user_score_delta,
     bot_score      |-> gs.bot_score + outcome.bot_score_delta,
     user_bomb_used |-> IF user_move = "bomb" THEN TRUE ELSE gs.user_bomb_used,
     bot_bomb_used  |-> IF bot_move = "bomb" THEN TRUE ELSE gs.bot_bomb_used,
     game_over      |-> IF round > LastRound THEN TRUE ELSE gs.game_over]

\* mutant of update_game_state: the bomb flags are assigned from this round's
\* moves instead of being set
update_assigns_bomb_flags(gs, user_move, bot_move, outcome) ==
    LET round == gs.round_number + 1 IN
    [round_number   |-> round,
     user_score     |-> gs.user_score + outcome.user_score_delta,
     bot_score      |-> gs.bot_score + outcome.bot_score_delta,
     user_bomb_used |-> user_move = "bomb",
     bot_bomb_used  |-> bot_move = "bomb",
     game_over      |-> IF round >= LastRound THEN TRUE ELSE gs.game_over]

\* update_game_state(user_move, bot_move, outcome): _game_state after the call
update_game_state(gs, user_move, bot_move, outcome) ==
    LET round == gs.round_number + 1 IN
    [round_number   |-> round,
     user_score     |-> gs.user_score + outcome.user_score_delta,
     bot_score      |-> gs.bot_score + outcome.bot_score_delta,
     user_bomb_used |-> IF user_move = "bomb" THEN TRUE ELSE gs.user_bomb_used,
     bot_bomb_used  |-> IF bot_move = "bomb" THEN TRUE ELSE gs.bot_bomb_used,
     game_over      |-> IF round >= LastRound THEN TRUE ELSE gs.game_over]

\* mutant of bot_moves: the user's flag is read instead of the bot's
bot_moves_reading_user_flag(gs) ==
    IF ~ gs.user_bomb_used
    THEN {"rock", "paper", "scissors"} \cup {"bomb"}
    ELSE {"rock", "paper", "scissors"}

\* mutant of bot_moves: bomb is offered whatever the flag says
bot_moves_ignoring_flag(gs) ==
    {"rock", "paper", "scissors"} \cup {"bomb"}

\* get_bot_move(): the list random.choice draws from
bot_moves(gs) ==
    IF ~ gs.bot_bomb_used
    THEN {"rock", "paper", "scissors"} \cup {"bomb"}
    ELSE {"rock", "paper", "scissors"}

\* get_current_state(), and the dict update_game_state returns
get_current_state(gs) ==
    [round_number   |-> gs.round_number,
     user_score     |-> gs.user_score,
     bot_score      |-> gs.bot_score,
     user_bomb_used |-> gs.user_bomb_used,
     bot_bomb_used  |-> gs.bot_bomb_used,
     game_over      |-> gs.game_over]

\* mutant of format_final_result: equal scores are not told from a user win
format_final_result_ties_to_user(state) ==
    IF state.user_score >= state.bot_score
    THEN [final |-> "User wins!", first |-> state.user_score, second |-> state.bot_score]
    ELSE IF state.user_score < state.bot_score
    THEN [final |-> "Bot wins!", first |-> state.bot_score, second |-> state.user_score]
    ELSE [final |-> "Draw!", first |-> state.user_score, second |-> state.bot_score]

\* format_final_result(state): who the announcement names, and the score shown
format_final_result(state) ==
    IF state.user_score > state.bot_score
    THEN [final |-> "User wins!", first |-> state.user_score, second |-> state.bot_score]
    ELSE IF state.user_score < state.bot_score
    THEN [final |-> "Bot wins!", first |-> state.bot_score, second |-> state.user_score]
    ELSE [final |-> "Draw!", first |-> state.user_score, second |-> state.bot_score]

(***************************************************************************)
(* Inputs.                                                                 *)
(***************************************************************************)
\* str.upper() on one character, to build inputs in capitals
upper_char(c) ==
    IF \E i \in 1..Len(LowerLetters) : LowerLetters[i] = c
    THEN UpperLetters[CHOOSE i \in 1..Len(LowerLetters) : LowerLetters[i] = c]
    ELSE c

upper(s) == [i \in 1..Len(s) |-> upper_char(s[i])]

\* runs of one whitespace character, of length 0..MaxPad
Pads == {[i \in 1..n |-> c] : n \in 0..MaxPad, c \in Whitespace}

\* the words typed: the four moves, a word that is no move, a move broken by
\* an inner space, and nothing at all
Words ==
    {Chars[m] : m \in Moves}
        \cup {<<"l","i","z","a","r","d">>, <<"b","o"," ","m","b">>, <<>>}

\* the raw lines the console may deliver: a word in lower case or in capitals,
\* with whitespace around it
RawInputs ==
    {pre \o w \o post : pre \in Pads, post \in Pads,
                        w \in Words \cup {upper(x) : x \in Words}}

\* every dict resolve_round_outcome can return
Outcomes == {resolve_round_outcome(u, b) : u \in UserMoves, b \in Moves}

(***************************************************************************)
(* State.                                                                  *)
(***************************************************************************)
VARIABLES
    game_state,     \* _game_state, the module's GameState
    call,           \* the last tool call: its name and its return value
    update_calls,   \* how often update_game_state has run on this GameState
    pc,             \* main()'s position
    user_input,     \* the raw line handed to validation
    user_move,      \* Agent.run: validation_result['normalized_move']
    bot_move,       \* Agent.run
    outcome,        \* Agent.run
    output          \* what main() has printed, in order

vars == <<game_state, call, update_calls, pc, user_input, user_move, bot_move,
          outcome, output>>

\* a name that is not bound
NoInput == <<"<unbound>">>
NoStr == "<unbound>"
NoDict == [unbound |-> TRUE]

Call(tool, ret) == [tool |-> tool, ret |-> ret]

\* the module is loaded: line 82 has run, main() has not started
Init ==
    /\ game_state = GameState
    /\ call = Call("none", NoDict)
    /\ update_calls = 0
    /\ pc = "start"
    /\ user_input = NoInput
    /\ user_move = NoStr
    /\ bot_move = NoStr
    /\ outcome = NoDict
    /\ output = <<>>

locals == <<user_input, user_move, bot_move, outcome>>

(***************************************************************************)
(* main() and the mock Agent.run (Spec).                                   *)
(***************************************************************************)
\* Agent._format_round_response: the five lines of one round
format_round_response(round_num, um, bm, oc, state) ==
    [round      |-> round_num,
     user_move  |-> um,
     bot_move   |-> bm,
     message    |-> oc.message,
     user_score |-> state.user_score,
     bot_score  |-> state.bot_score]

\* main, lines 345-355: a fresh GameState, the tools, the banner
MainStart ==
    /\ pc = "start"
    /\ game_state' = GameState
    /\ update_calls' = 0
    /\ output' = Append(output, [banner |-> "Welcome to Rock-Paper-Scissors-Plus!"])
    /\ pc' = "loop_top"
    /\ UNCHANGED <<call, locals>>

\* main, lines 358-364: read the state; announce and stop if the game is
\* over, else prompt for a line
LoopTop ==
    /\ pc = "loop_top"
    /\ LET current_state == get_current_state(game_state) IN
       /\ call' = Call("get_current_state", current_state)
       /\ IF current_state.game_over
          THEN /\ output' = Append(output, format_final_result(current_state))
               /\ pc' = "done"
               /\ UNCHANGED user_input
          ELSE /\ user_input' \in RawInputs
               /\ pc' = "validate"
               /\ UNCHANGED output
    /\ UNCHANGED <<game_state, update_calls, user_move, bot_move, outcome>>

\* Agent.run, lines 37-39.  user_input is not read again before the next
\* prompt overwrites it, and is forgotten here.
RunValidate ==
    /\ pc = "validate"
    /\ LET validation_result == validate_and_normalize_input(user_input, game_state) IN
       /\ call' = Call("validate_and_normalize_input", validation_result)
       /\ user_move' = validation_result.normalized_move
    /\ user_input' = NoInput
    /\ pc' = "bot"
    /\ UNCHANGED <<game_state, update_calls, bot_move, outcome, output>>

\* Agent.run, lines 41-42
RunGetBotMove ==
    /\ pc = "bot"
    /\ \E m \in bot_moves(game_state) :
        /\ call' = Call("get_bot_move", [move |-> m])
        /\ bot_move' = m
    /\ pc' = "resolve"
    /\ UNCHANGED <<game_state, update_calls, user_input, user_move, outcome, output>>

\* mutant of RunResolve: the two moves are passed in the wrong order
RunResolveSwapped ==
    /\ pc = "resolve"
    /\ outcome' = resolve_round_outcome(bot_move, user_move)
    /\ call' = Call("resolve_round_outcome", outcome')
    /\ pc' = "update"
    /\ UNCHANGED <<game_state, update_calls, user_input, user_move, bot_move, output>>

\* Agent.run, lines 44-45
RunResolve ==
    /\ pc = "resolve"
    /\ outcome' = resolve_round_outcome(user_move, bot_move)
    /\ call' = Call("resolve_round_outcome", outcome')
    /\ pc' = "update"
    /\ UNCHANGED <<game_state, update_calls, user_input, user_move, bot_move, output>>

\* Agent.run, lines 47-56, and main, lines 366-367: the state is updated, the
\* round is formatted from the returned dict and printed; run's locals go
\* with its frame
RunUpdate ==
    /\ pc = "update"
    /\ game_state' = update_game_state(game_state, user_move, bot_move, outcome)
    /\ update_calls' = update_calls + 1
    /\ LET updated_state == get_current_state(game_state') IN
       /\ call' = Call("update_game_state", updated_state)
       /\ output' = Append(output,
                           format_round_response(updated_state.round_number,
                                                 user_move, bot_move, outcome,
                                                 updated_state))
    /\ user_move' = NoStr
    /\ bot_move' = NoStr
    /\ outcome' = NoDict
    /\ pc' = "loop_bottom"
    /\ UNCHANGED user_input

\* main, lines 369-373: read the state again; announce and stop if the game
\* is over, else go round
LoopBottom ==
    /\ pc = "loop_bottom"
    /\ LET current_state == get_current_state(game_state) IN
       /\ call' = Call("get_current_state", current_state)
       /\ IF current_state.game_over
          THEN /\ output' = Append(output, format_final_result(current_state))
               /\ pc' = "done"
          ELSE /\ pc' = "loop_top"
               /\ UNCHANGED output
    /\ UNCHANGED <<game_state, update_calls, locals>>

Next ==
    \/ MainStart
    \/ LoopTop
    \/ RunValidate
    \/ RunGetBotMove
    \/ RunResolve
    \/ RunUpdate
    \/ LoopBottom

Spec == Init /\ [][Next]_vars

(***************************************************************************)
(* The tools, called one at a time, in any order, with any arguments       *)
(* (ToolSpec): what a caller other than main() can do to one GameState.    *)
(***************************************************************************)
\* mutant of ToolValidate: an accepted bomb is marked used at validation
ToolValidateConsumesBomb ==
    \E raw \in RawInputs :
        LET validation_result == validate_and_normalize_input(raw, game_state) IN
        /\ call' = Call("validate_and_normalize_input", validation_result)
        /\ game_state' = IF validation_result.normalized_move = "bomb"
                         THEN [game_state EXCEPT !.user_bomb_used = TRUE]
                         ELSE game_state
        /\ UNCHANGED <<update_calls, pc, locals, output>>

ToolValidate ==
    \E raw \in RawInputs :
        /\ call' = Call("validate_and_normalize_input",
                        validate_and_normalize_input(raw, game_state))
        /\ UNCHANGED <<game_state, update_calls, pc, locals, output>>

ToolGetBotMove ==
    \E m \in bot_moves(game_state) :
        /\ call' = Call("get_bot_move", [move |-> m])
        /\ UNCHANGED <<game_state, update_calls, pc, locals, output>>

ToolResolve ==
    \E u \in UserMoves, b \in Moves :
        /\ call' = Call("resolve_round_outcome", resolve_round_outcome(u, b))
        /\ UNCHANGED <<game_state, update_calls, pc, locals, output>>

ToolUpdate ==
    \E u \in UserMoves, b \in Moves, o \in Outcomes :
        /\ update_calls < MaxCalls
        /\ game_state' = update_game_state(game_state, u, b, o)
        /\ call' = Call("update_game_state", get_current_state(game_state'))
        /\ update_calls' = update_calls + 1
        /\ UNCHANGED <<pc, locals, output>>

ToolGetCurrentState ==
    /\ call' = Call("get_current_state", get_current_state(game_state))
    /\ UNCHANGED <<game_state, update_calls, pc, locals, output>>

ToolNext ==
    \/ ToolValidate
    \/ ToolGetBotMove
    \/ ToolResolve
    \/ ToolUpdate
    \/ ToolGetCurrentState

ToolSpec == Init /\ [][ToolNext]_vars

(***************************************************************************)
(* One tool applied to given arguments (ArgSpec): the arguments are drawn  *)
(* at the start and kept, so that a state holds a call's arguments beside  *)
(* its result.                                                             *)
(***************************************************************************)
ArgInit ==
    /\ game_state = GameState
    /\ call = Call("none", NoDict)
    /\ update_calls = 0
    /\ pc = "start"
    /\ user_input \in RawInputs
    /\ user_move \in UserMoves
    /\ bot_move \in Moves
    /\ outcome = NoDict
    /\ output = <<>>

\* validate_and_normalize_input(user_input)
ArgValidate ==
    /\ call' = Call("validate_and_normalize_input",
                    validate_and_normalize_input(user_input, game_state))
    /\ UNCHANGED <<game_state, update_calls, pc, locals, output>>

\* outcome = resolve_round_outcome(user_move, bot_move)
ArgResolve ==
    /\ outcome' = resolve_round_outcome(user_move, bot_move)
    /\ call' = Call("resolve_round_outcome", outcome')
    /\ UNCHANGED <<game_state, update_calls, pc, user_input, user_move, bot_move, output>>

\* update_game_state(user_move, bot_move, outcome)
ArgUpdate ==
    /\ outcome # NoDict
    /\ update_calls < MaxCalls
    /\ game_state' = update_game_state(game_state, user_move, bot_move, outcome)
    /\ call' = Call("update_game_state", get_current_state(game_state'))
    /\ update_calls' = update_calls + 1
    /\ UNCHANGED <<pc, locals, output>>

ArgNext ==
    \/ ArgValidate
    \/ ArgResolve
    \/ ArgUpdate

ArgSpec == ArgInit /\ [][ArgNext]_vars

(***************************************************************************)
(* Properties.                                                             *)
(***************************************************************************)
\* the rounds main() has printed, in order
Rounds == SelectSeq(output, LAMBDA line : "round" \in DOMAIN line)

\* C1 (ToolSpec): a call of update_game_state made when game_over is already
\* true is rejected: it reports an error and leaves every field of the
\* GameState as it was.
C1_UpdateAfterGameOverRejected ==
    [][(game_state.game_over /\ call'.tool = "update_game_state")
        => (/\ game_state' = game_state
            /\ "error" \in DOMAIN call'.ret)]_vars

\* C2 (ToolSpec): after n calls of update_game_state on a fresh GameState
\* round_number is n and game_over is true exactly when n >= 3; game_over
\* never returns to false.
C2_RoundCountAndGameOver ==
    /\ [](/\ game_state.round_number = update_calls
          /\ game_state.game_over <=> (update_calls >= 3))
    /\ [][game_state.game_over => game_state'.game_over]_vars

C2_Witness ==
    /\ update_calls = 4
    /\ game_state.round_number = 4
    /\ game_state.game_over

\* the rounds played or in play in which a side's move is bomb
UserBombRounds ==
    Cardinality({i \in DOMAIN Rounds : Rounds[i].user_move = "bomb"})
        + (IF user_move = "bomb" THEN 1 ELSE 0)

BotBombRounds ==
    Cardinality({i \in DOMAIN Rounds : Rounds[i].bot_move = "bomb"})
        + (IF bot_move = "bomb" THEN 1 ELSE 0)

\* C3 (Spec): in one game driven by main() each side's move is bomb in at
\* most one round, whatever is typed and whatever the bot draws.
C3_BombAtMostOncePerSide ==
    /\ UserBombRounds <= 1
    /\ BotBombRounds <= 1

\* both sides have played their bomb, in different rounds, and the user's
\* later round was refused at validation
C3_Witness ==
    /\ pc = "done"
    /\ Len(Rounds) = 3
    /\ Rounds[1].user_move = "bomb"
    /\ Rounds[2].bot_move = "bomb"
    /\ Rounds[3].user_move = "invalid"
    /\ Rounds[3].bot_move # "bomb"

\* C4 (ToolSpec): user_bomb_used and bot_bomb_used only ever go from false to
\* true, under update_game_state and under every other tool.
C4_BombFlagsMonotonic ==
    [][/\ game_state.user_bomb_used => game_state'.user_bomb_used
       /\ game_state.bot_bomb_used => game_state'.bot_bomb_used]_vars

\* both flags are set, the calls of update_game_state are used up, and
\* another tool has run since
C4_Witness ==
    /\ game_state.user_bomb_used
    /\ game_state.bot_bomb_used
    /\ update_calls = MaxCalls
    /\ call.tool = "get_current_state"

\* C10 (ToolSpec): validate_and_normalize_input, get_bot_move,
\* resolve_round_outcome and get_current_state leave the GameState as it was.
C10_OnlyUpdateMutates ==
    [][call'.tool \in {"validate_and_normalize_input", "get_bot_move",
                       "resolve_round_outcome", "get_current_state"}
        => game_state' = game_state]_vars

\* bomb has been accepted by validation on a GameState already two rounds in,
\* and the user's bomb is still unused
C10_Witness ==
    /\ call.tool = "validate_and_normalize_input"
    /\ call.ret.normalized_move = "bomb"
    /\ game_state.round_number = 2
    /\ ~ game_state.user_bomb_used

\* rock, paper and scissors
Plain == {"rock", "paper", "scissors"}

\* resolve_round_outcome has been applied to the arguments held
Resolved == outcome # NoDict

\* C5 (ArgSpec): for distinct moves a, b of rock, paper, scissors exactly one
\* of resolve(a, b), resolve(b, a) names the user the winner, with deltas
\* (1, 0), and the other names the bot, with deltas (0, 1); the user wins
\* exactly rock-scissors, scissors-paper and paper-rock.
C5_PlainMovesAsymmetric ==
    (Resolved /\ user_move \in Plain /\ bot_move \in Plain /\ user_move # bot_move)
        => LET swapped == resolve_round_outcome(bot_move, user_move)
               UserWon(o) == /\ o.winner = "user"
                             /\ o.user_score_delta = 1
                             /\ o.bot_score_delta = 0
               BotWon(o) == /\ o.winner = "bot"
                            /\ o.user_score_delta = 0
                            /\ o.bot_score_delta = 1
           IN  /\ \/ UserWon(outcome) /\ BotWon(swapped)
                  \/ BotWon(outcome) /\ UserWon(swapped)
               /\ UserWon(outcome) <=>
                     \/ user_move = "rock" /\ bot_move = "scissors"
                     \/ user_move = "scissors" /\ bot_move = "paper"
                     \/ user_move = "paper" /\ bot_move = "rock"

C5_Witness ==
    /\ Resolved
    /\ user_move = "paper"
    /\ bot_move = "rock"
    /\ outcome.winner = "user"

\* C6 (ArgSpec): bomb against rock, paper or scissors wins for whoever played
\* it: resolve(bomb, X) names the user with deltas (1, 0), resolve(X, bomb)
\* names the bot with deltas (0, 1).
C6_BombBeatsPlainMoves ==
    /\ (Resolved /\ user_move = "bomb" /\ bot_move \in Plain)
           => /\ outcome.winner = "user"
              /\ outcome.user_score_delta = 1
              /\ outcome.bot_score_delta = 0
    /\ (Resolved /\ user_move \in Plain /\ bot_move = "bomb")
           => /\ outcome.winner = "bot"
              /\ outcome.user_score_delta = 0
              /\ outcome.bot_score_delta = 1

C6_Witness ==
    /\ Resolved
    /\ user_move = "bomb"
    /\ bot_move = "scissors"
    /\ outcome.message = "User wins this round (bomb beats all)."

\* C7 (ArgSpec): equal moves, bomb against bomb included, give result draw,
\* winner none and deltas (0, 0).
C7_EqualMovesDraw ==
    (Resolved /\ user_move \in Moves /\ user_move = bot_move)
        => /\ outcome.result = "draw"
           /\ outcome.winner = "none"
           /\ outcome.user_score_delta = 0
           /\ outcome.bot_score_delta = 0

C7_Witness ==
    /\ Resolved
    /\ user_move = "bomb"
    /\ bot_move = "bomb"
    /\ outcome.result = "draw"

\* C8 (ArgSpec): the invalid sentinel against any bot move, bomb included,
\* gives result invalid, winner bot and deltas (0, 0).
C8_InvalidForfeitsWithoutScore ==
    (Resolved /\ user_move = "invalid" /\ bot_move \in Moves)
        => /\ outcome.result = "invalid"
           /\ outcome.winner = "bot"
           /\ outcome.user_score_delta = 0
           /\ outcome.bot_score_delta = 0

C8_Witness ==
    /\ Resolved
    /\ user_move = "invalid"
    /\ bot_move = "bomb"
    /\ outcome.winner = "bot"

\* where the text of s begins and ends: its first and last characters that
\* are not whitespace (an empty range when s has none)
FirstInk(s) ==
    IF \E k \in 1..Len(s) : s[k] \notin Whitespace
    THEN CHOOSE k \in 1..Len(s) :
            /\ s[k] \notin Whitespace
            /\ \A j \in 1..(k - 1) : s[j] \in Whitespace
    ELSE Len(s) + 1

LastInk(s) ==
    IF \E k \in 1..Len(s) : s[k] \notin Whitespace
    THEN CHOOSE k \in 1..Len(s) :
            /\ s[k] \notin Whitespace
            /\ \A j \in (k + 1)..Len(s) : s[j] \in Whitespace
    ELSE Len(s)

\* c with a capital letter replaced by its small letter
Folded(c) ==
    IF \E i \in 1..Len(UpperLetters) : c = UpperLetters[i]
    THEN LowerLetters[CHOOSE i \in 1..Len(UpperLetters) : c = UpperLetters[i]]
    ELSE c

\* s trimmed and lowercased
Normalized(s) ==
    [k \in 1..(LastInk(s) - FirstInk(s) + 1) |-> Folded(s[FirstInk(s) + k - 1])]

\* C9 (ArgSpec): validate_and_normalize_input trims and lowercases its input;
\* text that is no move name is invalid with the must-be-one-of message, bomb
\* is invalid with the already-used message when user_bomb_used is true, and
\* anything else is returned normalized with status valid.  bot_bomb_used
\* plays no part.
C9_ValidateNormalizesAndChecks ==
    call.tool = "validate_and_normalize_input"
        => LET n == Normalized(user_input) IN
           IF \A m \in Moves : n # Chars[m]
           THEN call.ret =
                  [normalized_move |-> "invalid",
                   status |-> "Invalid move. Must be one of: rock, paper, scissors, bomb."]
           ELSE IF n = Chars["bomb"] /\ game_state.user_bomb_used
           THEN call.ret =
                  [normalized_move |-> "invalid",
                   status |-> "Bomb already used. Cannot use bomb again."]
           ELSE /\ call.ret.status = "valid"
                /\ call.ret.normalized_move \in Moves
                /\ Chars[call.ret.normalized_move] = n

\* "BOMB " is refused once the user's bomb is used, the bot's being unused
C9_Witness ==
    /\ call.tool = "validate_and_normalize_input"
    /\ user_input = <<"B","O","M","B"," ">>
    /\ game_state.user_bomb_used
    /\ ~ game_state.bot_bomb_used
    /\ call.ret.status = "Bomb already used. Cannot use bomb again."

\* a step of main() in which update_game_state runs
UpdateStep == update_calls' = update_calls + 1

\* C11 (Spec): in every round each score goes up by 0 or 1 and at most one of
\* them goes up; so both scores are never negative and together never exceed
\* round_number.
C11_ScoresBoundedByRounds ==
    /\ [](/\ game_state.user_score >= 0
          /\ game_state.bot_score >= 0
          /\ game_state.user_score + game_state.bot_score
                <= game_state.round_number)
    /\ [][UpdateStep =>
            LET du == game_state'.user_score - game_state.user_score
                db == game_state'.bot_score - game_state.bot_score
            IN  /\ du \in {0, 1}
                /\ db \in {0, 1}
                /\ du + db <= 1
                /\ outcome.winner = "none" => (du = 0 /\ db = 0)
                /\ outcome.result = "invalid" => (du = 0 /\ db = 0)]_vars

\* a game with a round for each side and a round for neither
C11_Witness ==
    /\ pc = "done"
    /\ game_state.user_score = 1
    /\ game_state.bot_score = 1
    /\ game_state.round_number = 3

\* the raw line fails validation: its text is no move name, or it is bomb and
\* the user's bomb is used
FailsValidation(s, gs) ==
    \/ \A m \in Moves : Normalized(s) # Chars[m]
    \/ Normalized(s) = Chars["bomb"] /\ gs.user_bomb_used

\* C12 (Spec): a round whose input fails validation is forfeited and still
\* consumed: round_number goes up by one, both scores and user_bomb_used stay
\* as they were; in round 1 that leaves 0-0 with round_number 1.
C12_InvalidRoundConsumed ==
    /\ [][(pc = "validate" /\ FailsValidation(user_input, game_state))
            => user_move' = "invalid"]_vars
    /\ [][(UpdateStep /\ user_move = "invalid")
            => /\ game_state'.round_number = game_state.round_number + 1
               /\ game_state'.user_score = game_state.user_score
               /\ game_state'.bot_score = game_state.bot_score
               /\ game_state'.user_bomb_used = game_state.user_bomb_used]_vars
    /\ []((Len(Rounds) >= 1 /\ Rounds[1].user_move = "invalid")
            => /\ Rounds[1].round = 1
               /\ Rounds[1].user_score = 0
               /\ Rounds[1].bot_score = 0)

\* bomb was played in round 1 and refused in round 2, and the score of
\* round 1 stands after round 2
C12_Witness ==
    /\ Len(Rounds) = 2
    /\ Rounds[1].user_move = "bomb"
    /\ Rounds[1].user_score = 1
    /\ Rounds[2].user_move = "invalid"
    /\ Rounds[2].bot_move = "bomb"
    /\ game_state.round_number = 2
    /\ game_state.user_score = 1
    /\ game_state.bot_score = 0

\* the steps main() has left at most: six to a round not yet counted, and
\* the steps left in the round in hand
StepsLeft ==
    6 * (3 - game_state.round_number)
        + CASE pc = "start"       -> 6
            [] pc = "loop_top"    -> 5
            [] pc = "validate"    -> 4
            [] pc = "bot"         -> 3
            [] pc = "resolve"     -> 2
            [] pc = "update"      -> 1
            [] pc = "loop_bottom" -> 6
            [] pc = "done"        -> 0

\* what validation makes of the line in hand
Validated == validate_and_normalize_input(user_input, game_state).normalized_move

\* C13 (Spec): whatever is typed and whatever the bot draws, main() stops,
\* with game_over true, after exactly three rounds: every step lowers
\* StepsLeft, which is never negative, and wherever main() has not stopped
\* it can go on (the console has a line for the prompt, validation has a
\* result for the line, and every other step can be taken).
\* update_game_state is never called while game_over is true, and
\* round_number never exceeds 3.
C13_LoopEndsAfterThreeRounds ==
    /\ [](StepsLeft >= 0)
    /\ [][StepsLeft' < StepsLeft]_vars
    /\ [](\/ pc = "done"
          \/ pc = "loop_top" /\ RawInputs # {}
          \/ pc = "validate" /\ Validated \in UserMoves
          \/ ENABLED (MainStart \/ RunGetBotMove \/ RunResolve
                        \/ RunUpdate \/ LoopBottom))
    /\ [](pc = "done" => /\ game_state.game_over
                         /\ update_calls = 3
                         /\ Len(Rounds) = 3)
    /\ [](game_state.round_number <= 3)
    /\ [][UpdateStep => ~ game_state.game_over]_vars

\* the loop has stopped after three rounds, one of them forfeited
C13_Witness ==
    /\ pc = "done"
    /\ game_state.game_over
    /\ game_state.round_number = 3
    /\ Rounds[2].user_move = "invalid"
    /\ Rounds[3].user_move = "scissors"

\* the first k rounds printed are rock, paper, bomb against scissors, rock,
\* rock
ScenarioMoves ==
    <<[user_move |-> "rock",  bot_move |-> "scissors"],
      [user_move |-> "paper", bot_move |-> "rock"],
      [user_move |-> "bomb",  bot_move |-> "rock"]>>

ScenarioPlayed(k) ==
    /\ Len(Rounds) >= k
    /\ \A i \in 1..k : /\ Rounds[i].user_move = ScenarioMoves[i].user_move
                       /\ Rounds[i].bot_move = ScenarioMoves[i].bot_move

\* the score printed for round k is u-b
ScoreAfter(k, u, b) ==
    /\ Rounds[k].round = k
    /\ Rounds[k].user_score = u
    /\ Rounds[k].bot_score = b

\* C14 as stated (Spec): rock, paper, bomb against scissors, rock, rock gives
\* 1-0, 1-1 and 2-1, and ends with round_number 3, user_score 2, bot_score 1,
\* user_bomb_used true, bot_bomb_used false, game_over true.
C14_ScenarioAsStated ==
    /\ ScenarioPlayed(1) => ScoreAfter(1, 1, 0)
    /\ ScenarioPlayed(2) => ScoreAfter(2, 1, 1)
    /\ ScenarioPlayed(3) =>
          /\ ScoreAfter(3, 2, 1)
          /\ game_state = [round_number   |-> 3,
                           user_score     |-> 2,
                           bot_score      |-> 1,
                           user_bomb_used |-> TRUE,
                           bot_bomb_used  |-> FALSE,
                           game_over      |-> TRUE]

\* C14 amended (Spec): rock, paper, bomb against scissors, rock, rock gives
\* 1-0, 2-0 and 3-0 (paper beats rock in round 2), and ends with
\* round_number 3, user_score 3, bot_score 0, user_bomb_used true,
\* bot_bomb_used false, game_over true.
C14_ScenarioUserWinsAllRounds ==
    /\ ScenarioPlayed(1) => ScoreAfter(1, 1, 0)
    /\ ScenarioPlayed(2) => ScoreAfter(2, 2, 0)
    /\ ScenarioPlayed(3) =>
          /\ ScoreAfter(3, 3, 0)
          /\ game_state = [round_number   |-> 3,
                           user_score     |-> 3,
                           bot_score      |-> 0,
                           user_bomb_used |-> TRUE,
                           bot_bomb_used  |-> FALSE,
                           game_over      |-> TRUE]

\* the scenario has been played to the end
C14_Witness ==
    /\ pc = "done"
    /\ ScenarioPlayed(3)

\* the tool calls of one round, in order, with what is handed from each to
\* the next: the bot's move is drawn straight after validation, resolution
\* gets the validated move and the drawn move, the update gets those moves and
\* that outcome, and get_current_state follows the update
RoundInOrder ==
    /\ call.tool = "validate_and_normalize_input"
          => /\ user_move = call.ret.normalized_move
             /\ call'.tool = "get_bot_move"
             /\ bot_move' = call'.ret.move
             /\ user_move' = user_move
    /\ call.tool = "get_bot_move"
          => /\ call'.tool = "resolve_round_outcome"
             /\ call'.ret = resolve_round_outcome(user_move, bot_move)
             /\ outcome' = call'.ret
             /\ user_move' = user_move
             /\ bot_move' = bot_move
    /\ call.tool = "resolve_round_outcome"
          => /\ call'.tool = "update_game_state"
             /\ game_state' = update_game_state(game_state, user_move, bot_move,
                                                call.ret)
             /\ Rounds'[Len(Rounds')].user_move = user_move
             /\ Rounds'[Len(Rounds')].bot_move = bot_move
             /\ Rounds'[Len(Rounds')].message = call.ret.message
    /\ call.tool = "update_game_state"
          => /\ call'.tool = "get_current_state"
             /\ call'.ret = call.ret
             /\ game_state' = game_state
    /\ call'.tool = "validate_and_normalize_input"
          => call.tool = "get_current_state"

AllowedBotMoves ==
    IF game_state.bot_bomb_used
    THEN {"rock", "paper", "scissors"}
    ELSE {"rock", "paper", "scissors", "bomb"}

\* C16 (ToolSpec): get_bot_move returns one of rock, paper, scissors, bomb
\* while bot_bomb_used is false and one of rock, paper, scissors once it is
\* true, never the invalid sentinel, and each of those moves can be returned.
C16_BotMoveWithinAllowedSet ==
    /\ call.tool = "get_bot_move"
          => /\ call.ret.move \in AllowedBotMoves
             /\ call.ret.move # "invalid"
    /\ \A m \in AllowedBotMoves :
          ENABLED (ToolGetBotMove /\ call'.ret.move = m)

\* the bot's bomb is used, the user's is not, and a move has been drawn
C16_Witness ==
    /\ call.tool = "get_bot_move"
    /\ game_state.bot_bomb_used
    /\ ~ game_state.user_bomb_used
    /\ call.ret.move = "scissors"

\* C17 as stated (Spec): a round forfeited by invalid input changes only
\* round_number and game_over; both scores and both bomb flags stay as they
\* were, whatever the bot drew.
C17_ForfeitAsStated ==
    [][(UpdateStep /\ user_move = "invalid")
        => /\ game_state'.user_score = game_state.user_score
           /\ game_state'.bot_score = game_state.bot_score
           /\ game_state'.user_bomb_used = game_state.user_bomb_used
           /\ game_state'.bot_bomb_used = game_state.bot_bomb_used]_vars

\* C17 amended (Spec): a round forfeited by invalid input changes
\* round_number, game_over when round_number reaches 3, and bot_bomb_used,
\* which becomes true when the bot drew bomb in that round; both scores and
\* user_bomb_used stay as they were.
C17_ForfeitSpendsBotBomb ==
    [][(UpdateStep /\ user_move = "invalid")
        => /\ game_state'.round_number = game_state.round_number + 1
           /\ game_state'.game_over = (game_state'.round_number >= 3)
           /\ game_state'.user_score = game_state.user_score
           /\ game_state'.bot_score = game_state.bot_score
           /\ game_state'.user_bomb_used = game_state.user_bomb_used
           /\ game_state'.bot_bomb_used =
                 (game_state.bot_bomb_used \/ bot_move = "bomb")]_vars

\* the bot drew bomb in a forfeited first round: its bomb is used and nobody
\* has scored
C17_Witness ==
    /\ Len(Rounds) = 1
    /\ Rounds[1].user_move = "invalid"
    /\ Rounds[1].bot_move = "bomb"
    /\ game_state.bot_bomb_used
    /\ ~ game_state.user_bomb_used
    /\ game_state.user_score = 0
    /\ game_state.bot_score = 0

\* C18 (Spec): user_bomb_used is true exactly when the user's move was bomb
\* in a round already played in this game, and bot_bomb_used exactly when the
\* bot's was.
C18_BombFlagsRecordBombRounds ==
    /\ game_state.user_bomb_used
          <=> \E i \in DOMAIN Rounds : Rounds[i].user_move = "bomb"
    /\ game_state.bot_bomb_used
          <=> \E i \in DOMAIN Rounds : Rounds[i].bot_move = "bomb"

\* both bombs met in round 1 for a draw, and both are used
C18_Witness ==
    /\ Len(Rounds) = 2
    /\ Rounds[1].user_move = "bomb"
    /\ Rounds[1].bot_move = "bomb"
    /\ Rounds[1].message = "Draw."
    /\ game_state.user_bomb_used
    /\ game_state.bot_bomb_used

\* the final results main() has printed
Finals == SelectSeq(output, LAMBDA line : "final" \in DOMAIN line)

\* C19 (Spec): main() announces the final result once, as the last thing it
\* prints, when it stops and not before, with game_over true after round 3;
\* it names the user iff user_score > bot_score, the bot iff user_score <
\* bot_score, and a draw iff the scores are equal.
C19_FinalResultOnceAndRight ==
    /\ Len(Finals) = (IF pc = "done" THEN 1 ELSE 0)
    /\ Len(Finals) = 1
          => /\ game_state.game_over
             /\ game_state.round_number = 3
             /\ Len(Rounds) = 3
             /\ output[Len(output)] = Finals[1]
             /\ Finals[1].final \in {"User wins!", "Bot wins!", "Draw!"}
             /\ Finals[1].final = "User wins!"
                   <=> game_state.user_score > game_state.bot_score
             /\ Finals[1].final = "Bot wins!"
                   <=> game_state.user_score < game_state.bot_score
             /\ Finals[1].final = "Draw!"
                   <=> game_state.user_score = game_state.bot_score

\* a game that ends one all is announced a draw
C19_Witness ==
    /\ pc = "done"
    /\ Len(Finals) = 1
    /\ Finals[1].final = "Draw!"
    /\ game_state.user_score = 1
    /\ game_state.bot_score = 1

=============================================================================
